---- MODULE Spec2Model ----
(***************************************************************************)
(* Model of the validator of RoyalTensor/roleplay:                         *)
(*   src/prompting/validators/forward.py  (sampling, scoring, trust EMA)   *)
(*   src/neurons/validators/validator.py  (construction, run loop)         *)
(*                                                                         *)
(* Real numbers (scores, masks, penalties, weights, alpha, trust) are      *)
(* fixed-point integers: the real v is the integer v * Unit.  Unit is      *)
(* chosen so that every product the model forms is exact.                  *)
(* Peer ids (uids) are 0-based as in the code; the registry sequences are  *)
(* 1-based, so uid u lives at index u + 1.                                 *)
(***************************************************************************)
EXTENDS Integers, Sequences, FiniteSets, TLC

\* ------------------------------------------------------------------ bounds
\* largest registry size (metagraph.n) explored
MaxN == 4
\* largest number of loop iterations of run()
MaxStep == 2
\* largest number of block-height advances of the chain
MaxTicks == 2
\* largest number of peer queries (sampled uids, summed over the rounds) in
\* the trust-update specification
MaxQueries == 3
\* largest response batch in the reward-aggregation specification
MaxResponses == 3
\* longest completion over the short alphabet in the normalizer specification
MaxLen == 4

\* ------------------------------------------------------- program constants
\* config.neuron.epoch_length when no override is configured
DefaultEpochLength == 100
\* config.neuron.num_concurrent_forwards
NumConcurrentForwards == 2
\* config.neuron.vpermit_tao_limit
VpermitTaoLimit == 1
\* max_words in restrict_format_followup_responses
MaxWords == 40

\* ------------------------------------------------------------- fixed point
Pow2(n) == IF n <= 0 THEN 1 ELSE 2 ^ n

\* the integer that stands for the real 1.0: tenths for scores, halves for
\* two masks and three penalties, and one halving per trust update
MaxUpdates ==
    IF MaxQueries > MaxStep * NumConcurrentForwards
    THEN MaxQueries ELSE MaxStep * NumConcurrentForwards
Unit == 10 * 4 * 8 * Pow2(MaxUpdates)

\* num/den as a fixed-point value (den divides Unit)
Frac(num, den) == (num * Unit) \div den

\* the product of two fixed-point values
Mul(a, b) == (a * b) \div Unit

Range(s) == {s[i] : i \in 1..Len(s)}

\* torch.zeros(n): indexed by uid 0..n-1
Zeros(n) == [u \in 0..(n - 1) |-> 0]

\* identities (hotkeys) that can appear in a registry snapshot; Me is the
\* validator's own wallet hotkey
Me == "me"
KeySeq == <<"me", "a", "b", "c", "d">>

\* ------------------------------------------------------------------- state
VARIABLES
    config,                  \* self.config: fixed once drawn
    reward_weights,          \* self.reward_weights
    reward_functions,        \* self.reward_functions (names)
    masking_functions,       \* self.masking_functions (names)
    penalty_functions,       \* self.penalty_functions ([name, max_penalty])
    metagraph,               \* self.metagraph: [hotkeys, S], the registry snapshot
    moving_averaged_scores,  \* self.moving_averaged_scores, indexed by uid
    prev_block,              \* self.prev_block
    step,                    \* self.step
    block,                   \* the chain's block height (ttl_get_block reads it)
    ticks,                   \* how often the block height advanced
    pc,                      \* position of the process in __init__ / run()
    err,                     \* the error that ended construction or the loop
    fwd,                     \* the forwards of the current iteration: [pc, uids]
    store,                   \* the checkpoint store (load_state / save_state)
    iter,                    \* what the current loop iteration has done so far
    commits,                 \* number of set_weights calls made
    call                     \* the last call of a function applied on its own

vars == <<config, reward_weights, reward_functions, masking_functions,
          penalty_functions, metagraph, moving_averaged_scores, prev_block,
          step, block, ticks, pc, err, fwd, store, iter, commits, call>>

\* --------------------------------------------------------------- registry
\* sequences over S of length n without repetition
InjectiveSeqs(S, n) ==
    {s \in [1..n -> S] : \A i, j \in 1..n : s[i] = s[j] => i = j}

\* metagraph.n
N(mg) == Len(mg.hotkeys)

\* all uids of a snapshot: range(self.metagraph.n.item())
Uids(mg) == 0..(N(mg) - 1)

\* stake values a registry entry can carry: below the ceiling or at it
Stakes == {0, VpermitTaoLimit}

\* the snapshots of size 0..MaxN whose identities are the first keys in a
\* fixed order, with arbitrary stakes
OrderedSnapshots ==
    UNION {{[hotkeys |-> SubSeq(KeySeq, 1, n), S |-> st] :
               st \in [1..n -> Stakes]} :
           n \in {m \in 0..MaxN : m <= Len(KeySeq)}}

\* check_uid_availability(metagraph, uid, vpermit_tao_limit): the peer's
\* stake is below the configured ceiling
CheckUidAvailability(mg, uid, limit) == mg.S[uid + 1] < limit

\* ---------------------------------------------------------------- sampler
\* exclude: None, or a list of uids (kept as the set of its items)
NoneExclude == [is_none |-> TRUE, items |-> {}]
ListExclude(items) == [is_none |-> FALSE, items |-> items]

\* a sampler that forgets the exclusion list
UidIsNotExcludedDropped(uid, exclude) == TRUE

\* uid_is_not_excluded (line 64)
UidIsNotExcluded(uid, exclude) == exclude.is_none \/ uid \notin exclude.items

\* candidate_uids of get_random_uids (lines 57-67)
CandidateUids(mg, exclude) ==
    {uid \in Uids(mg) :
        /\ CheckUidAvailability(mg, uid, VpermitTaoLimit)
        /\ UidIsNotExcluded(uid, exclude)}

\* random.sample(population, k): every ordering of every k-subset
RandomSample(population, k) == InjectiveSeqs(population, k)

\* get_random_uids(self, k, exclude): the set of results it can return
GetRandomUids(mg, k, exclude) ==
    LET candidate_uids == CandidateUids(mg, exclude)
        kk == IF Cardinality(candidate_uids) < k
              THEN Cardinality(candidate_uids) ELSE k
    IN  IF candidate_uids # {}
        THEN RandomSample(candidate_uids, kk)
        ELSE {<<>>}

\* ------------------------------------------------------ reward aggregation
\* rewards += weight_i * reward_i_normalized          (forward.py line 115)
AddWeighted(rewards, weight, scores) ==
    [i \in 1..Len(rewards) |-> rewards[i] + Mul(weight, scores[i])]

\* a product that uses the first response's factor for every response
MulVecFirst(rewards, factors) ==
    [i \in 1..Len(rewards) |-> Mul(rewards[i], factors[1])]

\* rewards *= mask_i_normalized / rewards *= applied_penalty_i (125, 138)
MulVec(rewards, factors) ==
    [i \in 1..Len(rewards) |-> Mul(rewards[i], factors[i])]

\* the loop over zip(self.reward_weights, self.reward_functions), from j on
RECURSIVE WeightedLoop(_, _, _, _, _)
WeightedLoop(rewards, weights, functions, outs, j) ==
    IF j > Len(weights) \/ j > Len(functions)
    THEN rewards
    ELSE WeightedLoop(AddWeighted(rewards, weights[j], outs[j]),
                      weights, functions, outs, j + 1)

\* the loops over self.masking_functions / self.penalty_functions, from j on
RECURSIVE FactorLoop(_, _, _, _)
FactorLoop(rewards, functions, outs, j) ==
    IF j > Len(functions)
    THEN rewards
    ELSE FactorLoop(MulVec(rewards, outs[j]), functions, outs, j + 1)

\* a scorer that masks before it adds the weighted scores
ComputeRewardsMaskFirst(weights, rfns, mfns, pfns, n, battery) ==
    LET zero   == [i \in 1..n |-> 0]
        masked == FactorLoop(zero, mfns, battery.masks, 1)
        weighted == WeightedLoop(masked, weights, rfns, battery.scores, 1)
    IN  FactorLoop(weighted, pfns, battery.penalties, 1)

\* compute_rewards(self, task, responses, task_name, event) for a batch of n
\* responses; battery holds what each configured function returns for the
\* batch: battery.scores[j], battery.masks[j], battery.penalties[j] are the
\* vectors of the j-th weighted, masking and penalty function
ComputeRewards(weights, rfns, mfns, pfns, n, battery) ==
    LET zero     == [i \in 1..n |-> 0]
        weighted == WeightedLoop(zero, weights, rfns, battery.scores, 1)
        masked   == FactorLoop(weighted, mfns, battery.masks, 1)
    IN  FactorLoop(masked, pfns, battery.penalties, 1)

\* ------------------------------------------------------------ trust update
\* a scatter that credits the reward of response i to position i - 1
ScatterByPosition(tensor, uids, rewards) ==
    [u \in DOMAIN tensor |->
        IF u + 1 \in 1..Len(rewards) THEN rewards[u + 1] ELSE tensor[u]]

\* tensor.scatter(0, uids, rewards): a copy of tensor with rewards[i] written
\* at position uids[i] (uids are distinct)
Scatter(tensor, uids, rewards) ==
    [u \in DOMAIN tensor |->
        IF \E i \in 1..Len(uids) : uids[i] = u
        THEN rewards[CHOOSE i \in 1..Len(uids) : uids[i] = u]
        ELSE tensor[u]]

\* an update that adds the weighted rewards to the old trust without
\* weighting the old trust by (1 - alpha)
UpdateMovingAverageUndamped(mas, uids, rewards, alpha) ==
    LET scattered_rewards == Scatter(mas, uids, rewards)
    IN  [u \in DOMAIN mas |-> Mul(alpha, scattered_rewards[u]) + mas[u]]

\* lines 223-232 of run_step: the new moving_averaged_scores
UpdateMovingAverage(mas, uids, rewards, alpha) ==
    LET scattered_rewards == Scatter(mas, uids, rewards)
    IN  [u \in DOMAIN mas |->
            Mul(alpha, scattered_rewards[u]) + Mul(Unit - alpha, mas[u])]

\* rewards.argmax(dim=0): defined on a non-empty vector only; the first
\* position holding the maximum
HasArgmax(rewards) == Len(rewards) > 0
Argmax(rewards) ==
    CHOOSE i \in 1..Len(rewards) :
        /\ \A j \in 1..Len(rewards) : rewards[j] <= rewards[i]
        /\ \A j \in 1..(i - 1) : rewards[j] < rewards[i]

\* ------------------------------------------------------------ construction
\* values config.reward.mistral_weight is drawn from: 0, 0.5, 1, 1.5
MistralWeights == {0, Frac(1, 2), Unit, Frac(3, 2)}

\* values config.neuron.moving_average_alpha is drawn from: 0.5 and 1
Alphas == {Frac(1, 2), Unit}

\* the penalty functions of the mock and of the real configuration
MockPenaltyFunctions ==
    << [name |-> "task_validation", max_penalty |-> Frac(3, 4)],
       [name |-> "content_match",   max_penalty |-> Frac(1, 5)],
       [name |-> "keyword_match",   max_penalty |-> Unit] >>
RealPenaltyFunctions ==
    << [name |-> "task_validation", max_penalty |-> Frac(3, 5)],
       [name |-> "content_match",   max_penalty |-> Frac(1, 5)],
       [name |-> "keyword_match",   max_penalty |-> Unit] >>

\* tensor.sum() / sum of a list of weights
RECURSIVE SumSeq(_)
SumSeq(s) == IF Len(s) = 0 THEN 0 ELSE Head(s) + SumSeq(Tail(s))

\* the check of line 115: self.reward_weights.sum() != 1 raises
WeightsSumToOne(weights) == SumSeq(weights) = Unit

\* init_reward_models(self): what it leaves in self, or the error it raises
RewardSetup(cfg) ==
    IF cfg.mock_reward_models
    THEN [raised            |-> "",
          reward_functions  |-> << >>,
          reward_weights    |-> << >>,
          masking_functions |-> <<"mock_blacklist", "mock_nsfw">>,
          penalty_functions |-> MockPenaltyFunctions]
    ELSE LET weights   == <<cfg.mistral_weight>>
             functions == << IF cfg.mistral_weight > 0
                             THEN "mistral" ELSE "mock_mistral" >>
             masking   == << IF ~cfg.blacklist_off
                             THEN "blacklist" ELSE "mock_blacklist",
                             IF ~cfg.nsfw_off THEN "nsfw" ELSE "mock_nsfw" >>
         IN  IF ~WeightsSumToOne(weights)
             THEN [raised            |-> "weights do not sum to 1",
                   reward_functions  |-> << >>,
                   reward_weights    |-> weights,
                   masking_functions |-> << >>,
                   penalty_functions |-> << >>]
             ELSE IF Len(functions) # Len(weights)
             THEN [raised            |-> "lengths do not match",
                   reward_functions  |-> functions,
                   reward_weights    |-> weights,
                   masking_functions |-> << >>,
                   penalty_functions |-> << >>]
             ELSE [raised            |-> "",
                   reward_functions  |-> functions,
                   reward_weights    |-> weights,
                   masking_functions |-> masking,
                   penalty_functions |-> RealPenaltyFunctions]

\* lines 286-289 of __init__: config.neuron.epoch_length
EpochLength(cfg) ==
    IF cfg.epoch_length_override # 0
    THEN cfg.epoch_length_override ELSE DefaultEpochLength

\* every configuration explored by the construction specification
AllConfigs ==
    [mock_reward_models    : BOOLEAN,
     mistral_weight        : MistralWeights,
     blacklist_off         : BOOLEAN,
     nsfw_off              : BOOLEAN,
     relevance_off         : BOOLEAN,
     diversity_off         : BOOLEAN,
     epoch_length_override : {0, 1},
     epoch_length          : {0},
     moving_average_alpha  : {Frac(1, 2)},
     followup_sample_size  : {1}]

\* ----------------------------------------- values of the parts not in use
NoCall == [fn |-> "none"]
NoIter == [checked |-> FALSE]
NoStore == [saved |-> FALSE]
NoForwards ==
    [i \in 1..NumConcurrentForwards |->
        [pc |-> "idle", uids |-> << >>, seen |-> << >>]]
EmptyMetagraph == [hotkeys |-> << >>, S |-> << >>]

\* the run loop is not part of this specification
NoRun ==
    /\ pc = "off" /\ err = "" /\ fwd = NoForwards /\ store = NoStore
    /\ iter = NoIter /\ commits = 0 /\ step = 0 /\ prev_block = 0
    /\ block = 0 /\ ticks = 0

\* the scoring setup is not part of this specification
NoSetup ==
    /\ reward_weights = << >> /\ reward_functions = << >>
    /\ masking_functions = << >> /\ penalty_functions = << >>

\* --------------------------------------------- specification: construction
\* neuron.__init__ up to the call of init_reward_models (line 276)
InitConstruct ==
    /\ config \in AllConfigs
    /\ NoSetup
    /\ metagraph = [hotkeys |-> <<Me, "a">>, S |-> <<VpermitTaoLimit, 0>>]
    /\ moving_averaged_scores = Zeros(N(metagraph))
    /\ pc = "init_reward_models" /\ err = ""
    /\ fwd = NoForwards /\ store = NoStore /\ iter = NoIter /\ commits = 0
    /\ step = 0 /\ prev_block = 0 /\ block = 0 /\ ticks = 0
    /\ call = NoCall

\* init_reward_models(self), called at line 276; an error it raises leaves
\* __init__, so run() is never called
InitRewardModels ==
    /\ pc = "init_reward_models"
    /\ LET setup == RewardSetup(config)
       IN  /\ reward_functions' = setup.reward_functions
           /\ reward_weights' = setup.reward_weights
           /\ masking_functions' = setup.masking_functions
           /\ penalty_functions' = setup.penalty_functions
           /\ err' = setup.raised
           /\ pc' = IF setup.raised # "" THEN "failed" ELSE "init_epoch"
    /\ UNCHANGED <<config, metagraph, moving_averaged_scores, prev_block, step,
                   block, ticks, fwd, store, iter, commits, call>>

\* lines 286-292 of __init__: epoch length, prev_block, step
InitEpoch ==
    /\ pc = "init_epoch"
    /\ config' = [config EXCEPT !.epoch_length = EpochLength(config)]
    /\ prev_block' = block
    /\ step' = 0
    /\ pc' = "load_state"
    /\ UNCHANGED <<reward_weights, reward_functions, masking_functions,
                   penalty_functions, metagraph, moving_averaged_scores,
                   block, ticks, err, fwd, store, iter, commits, call>>

NextConstruct == InitRewardModels \/ InitEpoch

SpecConstruct == InitConstruct /\ [][NextConstruct]_vars

\* ------------------------------------------------- specification: sampler
\* a registry snapshot, before any call of get_random_uids
InitSample ==
    /\ metagraph \in OrderedSnapshots
    /\ config \in {c \in AllConfigs : /\ ~c.mock_reward_models
                                      /\ c.mistral_weight = Unit
                                      /\ ~c.blacklist_off /\ ~c.nsfw_off
                                      /\ ~c.relevance_off /\ ~c.diversity_off
                                      /\ c.epoch_length_override = 0}
    /\ NoSetup /\ NoRun
    /\ moving_averaged_scores = Zeros(N(metagraph))
    /\ call = NoCall

\* the exclude arguments explored: None and every list of uids 0..MaxN
Excludes == {NoneExclude} \cup {ListExclude(x) : x \in SUBSET (0..MaxN)}

\* one call get_random_uids(self, k, exclude)
CallGetRandomUids ==
    /\ call.fn = "none"
    /\ \E k \in 0..(MaxN + 1), exclude \in Excludes :
         \E uids \in GetRandomUids(metagraph, k, exclude) :
            call' = [fn |-> "get_random_uids", k |-> k, exclude |-> exclude,
                     uids |-> uids]
    /\ UNCHANGED <<config, reward_weights, reward_functions, masking_functions,
                   penalty_functions, metagraph, moving_averaged_scores,
                   prev_block, step, block, ticks, pc, err, fwd, store, iter,
                   commits>>

NextSample == CallGetRandomUids

SpecSample == InitSample /\ [][NextSample]_vars

\* ---------------------------------------- specification: compute_rewards
\* values a weighted scoring function, a masking function and a penalty
\* function (its applied penalty) return for one response
ScoreVals == {0, Frac(1, 2), Unit}
MaskVals == {0, Frac(1, 2), Unit}
PenaltyVals == {Frac(1, 2), Unit}

\* what the battery of functions returns for one response
Columns == [score : ScoreVals, masks : [1..2 -> MaskVals],
            penalties : [1..3 -> PenaltyVals]]

\* the outputs of the configured functions for a batch whose i-th response
\* has column cols[i]
Battery(rfns, mfns, pfns, cols) ==
    [scores    |-> [j \in 1..Len(rfns) |->
                       [i \in 1..Len(cols) |-> cols[i].score]],
     masks     |-> [j \in 1..Len(mfns) |->
                       [i \in 1..Len(cols) |-> cols[i].masks[j]]],
     penalties |-> [j \in 1..Len(pfns) |->
                       [i \in 1..Len(cols) |-> cols[i].penalties[j]]]]

\* a batch of n responses in which the response at obs has column c and the
\* others share column bg; up to two responses these are all batches
Batch(n, obs, c, bg) == [i \in 1..n |-> IF i = obs THEN c ELSE bg]

\* a constructed validator (real or mock scoring setup)
ConstructedConfigs ==
    {c \in AllConfigs : /\ c.mistral_weight = Unit
                        /\ ~c.blacklist_off /\ ~c.nsfw_off
                        /\ ~c.relevance_off /\ ~c.diversity_off
                        /\ c.epoch_length_override = 0}

Constructed(cfg) ==
    LET setup == RewardSetup(cfg)
    IN  /\ setup.raised = ""
        /\ config = cfg
        /\ reward_weights = setup.reward_weights
        /\ reward_functions = setup.reward_functions
        /\ masking_functions = setup.masking_functions
        /\ penalty_functions = setup.penalty_functions

InitRewards ==
    /\ \E cfg \in ConstructedConfigs : Constructed(cfg)
    /\ metagraph = EmptyMetagraph
    /\ moving_averaged_scores = Zeros(0)
    /\ NoRun
    /\ call = NoCall

\* one call compute_rewards(self, task, responses, task_name, event)
CallComputeRewards ==
    /\ call.fn = "none"
    /\ \E n \in 0..MaxResponses :
       \E obs \in 1..(IF n = 0 THEN 1 ELSE n) :
       \E c \in Columns :
       \E bg \in (IF n <= 1 THEN {c} ELSE Columns) :
         LET cols == Batch(n, obs, c, bg)
             battery == Battery(reward_functions, masking_functions,
                                penalty_functions, cols)
         IN  call' = [fn |-> "compute_rewards",
                      n |-> Len(cols),
                      battery |-> battery,
                      rewards |-> ComputeRewards(reward_weights,
                                     reward_functions, masking_functions,
                                     penalty_functions, Len(cols), battery)]
    /\ UNCHANGED <<config, reward_weights, reward_functions, masking_functions,
                   penalty_functions, metagraph, moving_averaged_scores,
                   prev_block, step, block, ticks, pc, err, fwd, store, iter,
                   commits>>

NextRewards == CallComputeRewards

SpecRewards == InitRewards /\ [][NextRewards]_vars

\* ----------------------------------------------- specification: run_step
\* the configuration of a real validator with sample size k, decay alpha and
\* epoch-length override o, as __init__ leaves it
RunConfig(k, alpha, o) ==
    [mock_reward_models    |-> FALSE,
     mistral_weight        |-> Unit,
     blacklist_off         |-> FALSE,
     nsfw_off              |-> FALSE,
     relevance_off         |-> FALSE,
     diversity_off         |-> FALSE,
     epoch_length_override |-> o,
     epoch_length          |-> IF o # 0 THEN o ELSE DefaultEpochLength,
     moving_average_alpha  |-> alpha,
     followup_sample_size  |-> k]

\* scores the weighted function returns in the rounds: 0.2, 0.4, 0.6
RoundScoreVals == {Frac(1, 5), Frac(2, 5), Frac(3, 5)}

\* a response that passes every masking function and draws no penalty
CleanColumn(score) ==
    [score |-> score, masks |-> [j \in 1..2 |-> Unit],
     penalties |-> [j \in 1..3 |-> Unit]]

\* a trust vector restored by load_state: fresh, or 1 and 0.2 in turn
LoadedTrust(n) ==
    {Zeros(n),
     [u \in 0..(n - 1) |-> IF u % 2 = 0 THEN Unit ELSE Frac(1, 5)]}

\* the outcome of the part of run_step after the query (lines 189-232) for
\* the sampled uids and the columns of their responses: the rewards, whether
\* the best-response selection raised (argmax of an empty vector), and the
\* trust vector it leaves
PostQuery(mas, uids, cols, alpha) ==
    LET battery == Battery(reward_functions, masking_functions,
                           penalty_functions, cols)
        rewards == ComputeRewards(reward_weights, reward_functions,
                                  masking_functions, penalty_functions,
                                  Len(cols), battery)
    IN  IF ~HasArgmax(rewards)
        THEN [raised |-> TRUE, rewards |-> rewards, mas |-> mas]
        ELSE [raised |-> FALSE, rewards |-> rewards,
              mas |-> UpdateMovingAverage(mas, uids, rewards, alpha)]

\* a gather that returns when the first forward has completed
AllForwardsDoneAnyOne(f) == \E i \in DOMAIN f : f[i].pc = "done"

\* asyncio.gather(*coroutines) has returned: every forward has completed
AllForwardsDone(f) == \A i \in DOMAIN f : f[i].pc = "done"

\* a forward that works on the trust vector as it was when it suspended
TrustReadAtAwait(f, mas) == f.seen

\* the trust vector a resumed forward reads at lines 223 and 230-232:
\* self.moving_averaged_scores as it is then, no suspension in between
TrustRead(f, mas) == mas

\* the numbers of forwards run() starts in an iteration
\* (config.neuron.num_concurrent_forwards, line 317)
ConcurrentForwards == {1, NumConcurrentForwards}

\* a validator with a registry of 1..MaxN peers in which uid 0 (the
\* validator's own entry) is at the stake ceiling and the others are below
\* it, before the first forward of its run loop; call counts the queries
\* dispatched and the updates applied, and holds the last run_step that
\* resumed
InitTrust ==
    /\ \E k \in 1..MaxN, alpha \in Alphas : Constructed(RunConfig(k, alpha, 0))
    /\ metagraph \in {mg \in OrderedSnapshots :
                        /\ N(mg) >= 1
                        /\ mg.S[1] = VpermitTaoLimit
                        /\ \A u \in 1..(N(mg) - 1) : mg.S[u + 1] = 0}
    /\ moving_averaged_scores \in LoadedTrust(N(metagraph))
    /\ pc = "off" /\ err = "" /\ store = NoStore
    /\ iter = NoIter /\ commits = 0 /\ step = 0 /\ prev_block = 0
    /\ block = 0 /\ ticks = 0
    /\ \E f \in ConcurrentForwards :
          fwd = [i \in 1..f |-> [pc |-> "idle", uids |-> << >>,
                                 seen |-> << >>]]
    /\ call = [fn |-> "none", rounds |-> 0, queries |-> 0, raised |-> FALSE,
               touched |-> {}, start |-> moving_averaged_scores]

\* run_step(self, task, k, timeout) of forward i up to its await of the
\* dendrite (lines 152-187): it samples its uids and suspends; gather starts
\* the forwards in order. An iteration is begun while MaxQueries leaves room
\* for the samples of all its forwards
RunStepDispatch(i) ==
    /\ call.fn \in {"none", "run_step"}
    /\ fwd[i].pc = "idle"
    /\ IF i = 1 THEN TRUE ELSE fwd[i - 1].pc # "idle"
    /\ \E uids \in GetRandomUids(metagraph, config.followup_sample_size,
                                 ListExclude({})) :
          /\ call.queries + (Len(fwd) - i + 1) * Len(uids) <= MaxQueries
          /\ fwd' = [fwd EXCEPT ![i] = [pc |-> "query", uids |-> uids,
                                        seen |-> moving_averaged_scores]]
          /\ call' = [call EXCEPT !.queries = @ + Len(uids)]
    /\ UNCHANGED <<config, reward_weights, reward_functions, masking_functions,
                   penalty_functions, metagraph, moving_averaged_scores,
                   prev_block, step, block, ticks, pc, err, store, iter,
                   commits>>

\* run_step of forward i from its resumption to its end (lines 189-263), one
\* step of the event loop, taken when every forward of the iteration has
\* reached its await: the rewards, the selection of line 213 (which raises on
\* an empty reward vector, before the update), the update of lines 223-232 on
\* the trust vector as it is now, and ttl_get_block at line 237, which
\* returns or raises
RunStepResume(i) ==
    /\ call.fn \in {"none", "run_step"}
    /\ fwd[i].pc = "query"
    /\ \A j \in DOMAIN fwd : fwd[j].pc # "idle"
    /\ \E scores \in [1..Len(fwd[i].uids) -> RoundScoreVals],
          logged \in BOOLEAN :
         LET uids == fwd[i].uids
             cols == [j \in 1..Len(uids) |-> CleanColumn(scores[j])]
             out  == PostQuery(TrustRead(fwd[i], moving_averaged_scores),
                               uids, cols, config.moving_average_alpha)
             raised == IF out.raised THEN TRUE ELSE ~logged
         IN  /\ moving_averaged_scores' = out.mas
             /\ fwd' = [fwd EXCEPT ![i] =
                           [pc |-> IF raised THEN "raised" ELSE "done",
                            uids |-> << >>, seen |-> << >>]]
             /\ call' = [fn |-> "run_step",
                         rounds |-> call.rounds + (IF out.raised THEN 0 ELSE 1),
                         queries |-> call.queries,
                         raised |-> raised,
                         touched |-> call.touched \cup Range(uids),
                         start |-> call.start,
                         uids |-> uids,
                         rewards |-> out.rewards,
                         before |-> moving_averaged_scores]
    /\ UNCHANGED <<config, reward_weights, reward_functions, masking_functions,
                   penalty_functions, metagraph, prev_block, step, block,
                   ticks, pc, err, store, iter, commits>>

\* the dendrite call of forward i raises (lines 183-187): run_step ends
\* before it reads a response and leaves the trust vector as it is
RunStepRaise(i) ==
    /\ call.fn \in {"none", "run_step"}
    /\ fwd[i].pc = "query"
    /\ fwd' = [fwd EXCEPT ![i] = [pc |-> "raised", uids |-> << >>,
                                  seen |-> << >>]]
    /\ UNCHANGED <<config, reward_weights, reward_functions, masking_functions,
                   penalty_functions, metagraph, moving_averaged_scores,
                   prev_block, step, block, ticks, pc, err, store, iter,
                   commits, call>>

\* every forward of the iteration has returned: gather returns (lines
\* 319-321) and the next iteration starts its forwards anew
RunStepsReturn ==
    /\ call.fn = "run_step"
    /\ AllForwardsDone(fwd)
    /\ fwd' = [i \in DOMAIN fwd |-> [pc |-> "idle", uids |-> << >>,
                                     seen |-> << >>]]
    /\ UNCHANGED <<config, reward_weights, reward_functions, masking_functions,
                   penalty_functions, metagraph, moving_averaged_scores,
                   prev_block, step, block, ticks, pc, err, store, iter,
                   commits, call>>

NextTrust ==
    \/ \E i \in DOMAIN fwd : RunStepDispatch(i)
    \/ \E i \in DOMAIN fwd : RunStepResume(i)
    \/ \E i \in DOMAIN fwd : RunStepRaise(i)
    \/ RunStepsReturn

SpecTrust == InitTrust /\ [][NextTrust]_vars

\* ------------------------------------------------ specification: run()
\* a snapshot with the given identities: the validator's own entry is at the
\* stake ceiling, the others are below it
Snapshot(h) ==
    [hotkeys |-> h,
     S |-> [i \in 1..Len(h) |-> IF h[i] = Me THEN VpermitTaoLimit ELSE 0]]

\* the snapshots the chain can hand out (of at most MaxN entries): two peers,
\* the two re-indexed, one of them dropped, the validator dropped, no peer
RunSnapshots ==
    {Snapshot(h) : h \in {g \in {<<Me, "a", "b">>, <<Me, "b", "a">>,
                                 <<Me, "a">>, <<"a", "b">>, <<Me>>} :
                            Len(g) <= MaxN}}

\* what the functions return for a response in the run loop: a full score
\* with nothing flagged, or a response the blacklist flags
RunColumns ==
    {CleanColumn(Unit),
     [score |-> Unit, masks |-> <<0, Unit>>,
      penalties |-> [j \in 1..3 |-> Unit]]}

\* self.wallet.hotkey.ss58_address in self.metagraph.hotkeys (line 306)
Registered(mg) == Me \in Range(mg.hotkeys)

\* a registration check that passes whatever the registry holds
RegisteredUnchecked(mg) == TRUE

\* the check of line 306 as run() applies it
IsRegistered(mg) == Registered(mg)

\* should_update with no slack: a boundary as soon as the epoch length is
\* reached
ShouldUpdateAtLeast(cur_block, prev, epoch_length) ==
    cur_block - prev >= epoch_length

\* should_update(self), lines 294-298
ShouldUpdate(cur_block, prev, epoch_length) ==
    cur_block - prev > epoch_length

\* a resync that relies on positional continuity: a uid keeps its trust
\* whoever holds it now, a uid beyond the old size starts at 0
RemapByPosition(mas, old, new) ==
    [u \in 0..(Len(new.hotkeys) - 1) |->
        IF u < Len(old.hotkeys) THEN mas[u] ELSE 0]

\* the trust vector after a resync: an identity kept across the resync keeps
\* its trust at its new uid, a new identity starts at 0
Remap(mas, old, new) ==
    [u \in 0..(Len(new.hotkeys) - 1) |->
        IF \E v \in 0..(Len(old.hotkeys) - 1) :
               old.hotkeys[v + 1] = new.hotkeys[u + 1]
        THEN mas[CHOOSE v \in 0..(Len(old.hotkeys) - 1) :
                     old.hotkeys[v + 1] = new.hotkeys[u + 1]]
        ELSE 0]

\* what an iteration has done so far, at its start
FreshIter ==
    [checked |-> FALSE, cur_block |-> 0, prev_block |-> 0, resyncs |-> 0,
     should_set |-> "none", commit |-> "none", height_updates |-> 0]

\* heights of the chain at which the validator is started: the height at
\* which a stored checkpoint was written, or two blocks later
StartBlocks == {0, 2}

\* the state in which main() calls run(): constructed on a registry with one
\* or two peers, prev_block read from the chain, step 0, trust all zero; the
\* store is empty, or holds a checkpoint written at height 0
Init ==
    /\ Constructed(RunConfig(1, Frac(1, 2), 1))
    /\ metagraph \in {Snapshot(<<Me, "a", "b">>), Snapshot(<<Me, "a">>)}
    /\ moving_averaged_scores = Zeros(N(metagraph))
    /\ \/ store = NoStore /\ block = 0
       \/ /\ store = [saved |-> TRUE,
                      trust |-> [u \in 0..(N(metagraph) - 1) |-> Frac(1, 2)],
                      prev_block |-> 0, step |-> 0]
          /\ block \in StartBlocks
    /\ ticks = 0 /\ prev_block = block /\ step = 0
    /\ pc = "load_state" /\ err = ""
    /\ fwd = NoForwards
    /\ iter = FreshIter
    /\ commits = 0
    /\ call = NoCall

\* the loop is about to read the block height: should_update() at line 324,
\* once the forwards have returned, and line 332
ReadsBlockNext ==
    \/ pc = "forwards" /\ AllForwardsDone(fwd)
    \/ pc = "set_prev_block"

\* the chain advances by one block or by a whole epoch; an advance
\* shows in the run only through the next read of the height, so it is taken
\* when the loop is about to read
Tick ==
    /\ ReadsBlockNext
    /\ ticks < MaxTicks
    /\ \E d \in {1, config.epoch_length} : block' = block + d
    /\ ticks' = ticks + 1
    /\ UNCHANGED <<config, reward_weights, reward_functions, masking_functions,
                   penalty_functions, metagraph, moving_averaged_scores,
                   prev_block, step, pc, err, fwd, store, iter, commits, call>>

\* load_state(self), line 302: the stored trust vector, last-committed height
\* and round counter are restored when a checkpoint exists
LoadState ==
    /\ pc = "load_state"
    /\ IF store.saved
       THEN /\ moving_averaged_scores' = store.trust
            /\ prev_block' = store.prev_block
            /\ step' = store.step
       ELSE UNCHANGED <<moving_averaged_scores, prev_block, step>>
    /\ pc' = "checkpoint"
    /\ UNCHANGED <<config, reward_weights, reward_functions, masking_functions,
                   penalty_functions, metagraph, block, ticks, err, fwd, store,
                   iter, commits, call>>

\* checkpoint(self), lines 303 and 326: the registry snapshot is replaced by
\* the chain's current one and the trust vector is remapped by identity
Checkpoint ==
    /\ pc \in {"checkpoint", "boundary"}
    /\ \E new \in RunSnapshots :
          /\ metagraph' = new
          /\ moving_averaged_scores' =
                 Remap(moving_averaged_scores, metagraph, new)
    /\ IF pc = "checkpoint"
       THEN /\ pc' = "check_registered"
            /\ iter' = iter
       ELSE /\ pc' = "should_set_weights"
            /\ iter' = [iter EXCEPT !.resyncs = @ + 1]
    /\ call' = IF call.fn = "checkpoint"
               THEN [call EXCEPT !.resyncs = @ + 1]
               ELSE call
    /\ UNCHANGED <<config, reward_weights, reward_functions, masking_functions,
                   penalty_functions, prev_block, step, block, ticks, err, fwd,
                   store, commits>>

\* lines 306-311: the registration check that starts a loop iteration; the
\* exception it raises is caught at line 340 and ends run()
CheckRegistered ==
    /\ pc = "check_registered"
    /\ step < MaxStep
    /\ IF IsRegistered(metagraph)
       THEN /\ pc' = "forwards"
            /\ err' = err
            /\ iter' = FreshIter
       ELSE /\ pc' = "stopped"
            /\ err' = "not registered"
            /\ iter' = FreshIter
    /\ fwd' = NoForwards
    /\ UNCHANGED <<config, reward_weights, reward_functions, masking_functions,
                   penalty_functions, metagraph, moving_averaged_scores,
                   prev_block, step, block, ticks, store, commits, call>>

\* forward i runs run_step up to its await of the dendrite (lines 152-187):
\* it samples its uids; the coroutines are started in order; seen notes the
\* trust vector at the moment it suspends
ForwardStart(i) ==
    /\ pc = "forwards"
    /\ fwd[i].pc = "idle"
    /\ IF i = 1 THEN TRUE ELSE fwd[i - 1].pc # "idle"
    /\ \E uids \in GetRandomUids(metagraph, config.followup_sample_size,
                                 ListExclude({})) :
          fwd' = [fwd EXCEPT ![i] = [pc |-> "query", uids |-> uids,
                                     seen |-> moving_averaged_scores]]
    /\ UNCHANGED <<config, reward_weights, reward_functions, masking_functions,
                   penalty_functions, metagraph, moving_averaged_scores,
                   prev_block, step, block, ticks, pc, err, store, iter,
                   commits, call>>

\* forward i resumes with its responses and runs run_step to its end (lines
\* 189-263) without suspending; the event loop runs every coroutine gather
\* has scheduled up to its await before it delivers a response. The selection
\* of line 213 raises on an empty reward vector, before the update of lines
\* 223-232; ttl_get_block at line 237 returns or raises, after the update.
\* An exception ends the forward; run() sees it only when gather has handed
\* it on (Catch)
ForwardFinish(i) ==
    /\ pc = "forwards"
    /\ fwd[i].pc = "query"
    /\ \A j \in DOMAIN fwd : fwd[j].pc # "idle"
    /\ \E cols \in [1..Len(fwd[i].uids) -> RunColumns], logged \in BOOLEAN :
         LET out == PostQuery(TrustRead(fwd[i], moving_averaged_scores),
                              fwd[i].uids, cols, config.moving_average_alpha)
             raised == IF out.raised THEN TRUE ELSE ~logged
         IN  /\ moving_averaged_scores' = out.mas
             /\ fwd' = [fwd EXCEPT ![i] =
                           [pc |-> IF raised THEN "raised" ELSE "done",
                            uids |-> << >>, seen |-> << >>]]
             /\ call' = IF call.fn = "forwards"
                        THEN [call EXCEPT !.log =
                                 Append(@, [uids |-> fwd[i].uids,
                                            rewards |-> out.rewards,
                                            raised |-> raised])]
                        ELSE call
    /\ UNCHANGED <<config, reward_weights, reward_functions, masking_functions,
                   penalty_functions, metagraph, prev_block, step, block,
                   ticks, pc, err, store, iter, commits>>

\* the dendrite call of forward i raises (lines 183-187): the exception ends
\* the forward before it reads a response, and the trust vector is as it was
ForwardRaise(i) ==
    /\ pc = "forwards"
    /\ fwd[i].pc = "query"
    /\ fwd' = [fwd EXCEPT ![i] = [pc |-> "raised", uids |-> << >>,
                                  seen |-> << >>]]
    /\ UNCHANGED <<config, reward_weights, reward_functions, masking_functions,
                   penalty_functions, metagraph, moving_averaged_scores,
                   prev_block, step, block, ticks, pc, err, store, iter,
                   commits, call>>

\* gather hands the exception of a forward to run_forward (line 319),
\* run_until_complete raises it in run() (line 321) and line 340 catches it:
\* run() returns. The event loop has by then run every forward up to its
\* await, and the forwards whose responses were ready have resumed (the
\* steps between the raise and this one); a forward still waiting is left
\* behind
Catch ==
    /\ pc = "forwards"
    /\ \E i \in DOMAIN fwd : fwd[i].pc = "raised"
    /\ \A j \in DOMAIN fwd : fwd[j].pc # "idle"
    /\ err' = "forward raised"
    /\ pc' = "stopped"
    /\ UNCHANGED <<config, reward_weights, reward_functions, masking_functions,
                   penalty_functions, metagraph, moving_averaged_scores,
                   prev_block, step, block, ticks, fwd, store, iter, commits,
                   call>>

\* a loop that goes on to line 324 without waiting for the forwards
ForwardsReturnEarly ==
    /\ pc = "forwards"
    /\ iter' = [iter EXCEPT !.checked = TRUE, !.cur_block = block,
                            !.prev_block = prev_block]
    /\ pc' = IF ShouldUpdate(block, prev_block, config.epoch_length)
             THEN "boundary" ELSE "end_iteration"
    /\ UNCHANGED <<config, reward_weights, reward_functions, masking_functions,
                   penalty_functions, metagraph, moving_averaged_scores,
                   prev_block, step, block, ticks, err, fwd, store, commits,
                   call>>

\* line 321 returns once gather has every forward's result; line 324 then
\* evaluates should_update()
ForwardsReturn ==
    /\ pc = "forwards"
    /\ AllForwardsDone(fwd)
    /\ iter' = [iter EXCEPT !.checked = TRUE, !.cur_block = block,
                            !.prev_block = prev_block]
    /\ pc' = IF ShouldUpdate(block, prev_block, config.epoch_length)
             THEN "boundary" ELSE "end_iteration"
    /\ UNCHANGED <<config, reward_weights, reward_functions, masking_functions,
                   penalty_functions, metagraph, moving_averaged_scores,
                   prev_block, step, block, ticks, err, fwd, store, commits,
                   call>>

\* should_set_weights(self), line 327: the eligibility check of the commit
ShouldSetWeights ==
    /\ pc = "should_set_weights"
    /\ \E eligible \in BOOLEAN :
          /\ iter' = [iter EXCEPT !.should_set = IF eligible THEN "yes" ELSE "no"]
          /\ pc' = IF eligible THEN "set_weights" ELSE "set_prev_block"
    /\ UNCHANGED <<config, reward_weights, reward_functions, masking_functions,
                   penalty_functions, metagraph, moving_averaged_scores,
                   prev_block, step, block, ticks, err, fwd, store, commits,
                   call>>

\* a boundary that goes from the commit straight to the height update
AfterSetWeightsNoSave == "set_prev_block"

\* the statement run() executes when set_weights has returned: save_state,
\* line 330
AfterSetWeights == "save_state"

\* set_weights(self), line 329: the commit of the trust vector; the chain
\* accepts it or not, and set_weights returns either way
SetWeights ==
    /\ pc = "set_weights"
    /\ \E outcome \in {"ok", "failed"} :
          iter' = [iter EXCEPT !.commit = outcome]
    /\ commits' = commits + 1
    /\ pc' = AfterSetWeights
    /\ UNCHANGED <<config, reward_weights, reward_functions, masking_functions,
                   penalty_functions, metagraph, moving_averaged_scores,
                   prev_block, step, block, ticks, err, fwd, store, call>>

\* save_state(self), line 330
SaveState ==
    /\ pc = "save_state"
    /\ store' = [saved |-> TRUE, trust |-> moving_averaged_scores,
                 prev_block |-> prev_block, step |-> step]
    /\ pc' = "set_prev_block"
    /\ UNCHANGED <<config, reward_weights, reward_functions, masking_functions,
                   penalty_functions, metagraph, moving_averaged_scores,
                   prev_block, step, block, ticks, err, fwd, iter, commits,
                   call>>

\* a height update that records the height should_update() saw, not the
\* one read at line 332, less one block
SetPrevBlockStale ==
    /\ pc = "set_prev_block"
    /\ prev_block' = iter.cur_block - 1
    /\ iter' = [iter EXCEPT !.height_updates = @ + 1]
    /\ pc' = "end_iteration"
    /\ UNCHANGED <<config, reward_weights, reward_functions, masking_functions,
                   penalty_functions, metagraph, moving_averaged_scores, step,
                   block, ticks, err, fwd, store, commits, call>>

\* a height update that is made only when the commit went through
SetPrevBlockAfterCommit ==
    /\ pc = "set_prev_block"
    /\ prev_block' = IF iter.commit = "ok" THEN block ELSE prev_block
    /\ iter' = [iter EXCEPT !.height_updates = @ + 1]
    /\ pc' = "end_iteration"
    /\ UNCHANGED <<config, reward_weights, reward_functions, masking_functions,
                   penalty_functions, metagraph, moving_averaged_scores, step,
                   block, ticks, err, fwd, store, commits, call>>

\* line 332: self.prev_block = ttl_get_block(self)
SetPrevBlock ==
    /\ pc = "set_prev_block"
    /\ prev_block' = block
    /\ iter' = [iter EXCEPT !.height_updates = @ + 1]
    /\ pc' = "end_iteration"
    /\ UNCHANGED <<config, reward_weights, reward_functions, masking_functions,
                   penalty_functions, metagraph, moving_averaged_scores, step,
                   block, ticks, err, fwd, store, commits, call>>

\* lines 336-339: the end of the iteration, self.step += 1
EndIteration ==
    /\ pc = "end_iteration"
    /\ step' = step + 1
    /\ pc' = "check_registered"
    /\ UNCHANGED <<config, reward_weights, reward_functions, masking_functions,
                   penalty_functions, metagraph, moving_averaged_scores,
                   prev_block, block, ticks, err, fwd, store, iter, commits,
                   call>>

\* the program points at which the next call of run() can raise
RaiseSites ==
    {p \in {"check_registered", "forwards", "boundary", "should_set_weights",
            "set_weights", "save_state", "set_prev_block", "end_iteration"} :
        /\ p = "check_registered" => IsRegistered(metagraph)
        /\ p = "forwards" => AllForwardsDone(fwd)}

\* an exception handler placed inside the while loop: the error is recorded
\* and the loop goes on with its next iteration
RaiseRetried ==
    /\ pc \in RaiseSites
    /\ err' = pc
    /\ pc' = "check_registered"
    /\ UNCHANGED <<config, reward_weights, reward_functions, masking_functions,
                   penalty_functions, metagraph, moving_averaged_scores,
                   prev_block, step, block, ticks, fwd, store, iter, commits,
                   call>>

\* a call that run() makes inside the try block raises, and the exception is
\* caught at line 340: run() returns. The calls are ttl_get_block at line 311
\* (after a registration check that passed), ttl_get_block in should_update
\* (lines 295, 324), checkpoint (326), should_set_weights (327), set_weights
\* (329), save_state (330), ttl_get_block at line 332 and should_reinit_wandb
\* or reinit_wandb (337-338)
Raise ==
    /\ pc \in RaiseSites
    /\ err' = pc
    /\ pc' = "stopped"
    /\ UNCHANGED <<config, reward_weights, reward_functions, masking_functions,
                   penalty_functions, metagraph, moving_averaged_scores,
                   prev_block, step, block, ticks, fwd, store, iter, commits,
                   call>>

Next ==
    \/ Tick
    \/ LoadState
    \/ Checkpoint
    \/ CheckRegistered
    \/ \E i \in 1..NumConcurrentForwards : ForwardStart(i)
    \/ \E i \in 1..NumConcurrentForwards : ForwardFinish(i)
    \/ \E i \in 1..NumConcurrentForwards : ForwardRaise(i)
    \/ Catch
    \/ ForwardsReturn
    \/ ShouldSetWeights
    \/ SetWeights
    \/ SaveState
    \/ SetPrevBlock
    \/ EndIteration
    \/ Raise

Spec == Init /\ [][Next]_vars

\* ------------------------------------- specification: the loop without end
\* The run loop has no last iteration, so its counters have no bound. Here
\* they are kept finite without bounding the run: the heights are counted
\* from the last-committed height, the round counter and the number of
\* commits stop counting at MaxStep - 1 (the value then stands for every
\* larger one).

\* the chain advances by one block; a height more than epoch_length + 1 above
\* the last-committed height is kept as epoch_length + 1
LiveTick ==
    /\ ReadsBlockNext
    /\ block - prev_block <= config.epoch_length
    /\ block' = block + 1
    /\ UNCHANGED <<config, reward_weights, reward_functions, masking_functions,
                   penalty_functions, metagraph, moving_averaged_scores,
                   prev_block, step, ticks, pc, err, fwd, store, iter,
                   commits, call>>

\* set_weights(self), line 329, with the number of commits counted up to
\* MaxStep - 1
LiveSetWeights ==
    /\ pc = "set_weights"
    /\ \E outcome \in {"ok", "failed"} :
          iter' = [iter EXCEPT !.commit = outcome]
    /\ commits' = IF commits + 1 < MaxStep THEN commits + 1 ELSE commits
    /\ pc' = AfterSetWeights
    /\ UNCHANGED <<config, reward_weights, reward_functions, masking_functions,
                   penalty_functions, metagraph, moving_averaged_scores,
                   prev_block, step, block, ticks, err, fwd, store, call>>

\* line 332: self.prev_block = ttl_get_block(self); the heights are counted
\* from the new last-committed height from here on
LiveSetPrevBlock ==
    /\ pc = "set_prev_block"
    /\ prev_block' = 0
    /\ block' = 0
    /\ iter' = [iter EXCEPT !.height_updates = @ + 1]
    /\ pc' = "end_iteration"
    /\ UNCHANGED <<config, reward_weights, reward_functions, masking_functions,
                   penalty_functions, metagraph, moving_averaged_scores, step,
                   ticks, err, fwd, store, commits, call>>

\* a loop body that is run once: run() returns after line 339
LiveEndIterationOnce ==
    /\ pc = "end_iteration"
    /\ step' = IF step + 1 < MaxStep THEN step + 1 ELSE step
    /\ pc' = "stopped"
    /\ UNCHANGED <<config, reward_weights, reward_functions, masking_functions,
                   penalty_functions, metagraph, moving_averaged_scores,
                   prev_block, block, ticks, err, fwd, store, iter, commits,
                   call>>

\* lines 336-339 and the jump back to line 305 (while True), with the round
\* counter counted up to MaxStep - 1
LiveEndIteration ==
    /\ pc = "end_iteration"
    /\ step' = IF step + 1 < MaxStep THEN step + 1 ELSE step
    /\ pc' = "check_registered"
    /\ UNCHANGED <<config, reward_weights, reward_functions, masking_functions,
                   penalty_functions, metagraph, moving_averaged_scores,
                   prev_block, block, ticks, err, fwd, store, iter, commits,
                   call>>

\* run() on a validator with alpha = 1 and an empty store
InitLive ==
    /\ Constructed(RunConfig(1, Unit, 1))
    /\ metagraph \in {Snapshot(<<Me, "a", "b">>), Snapshot(<<Me, "a">>)}
    /\ moving_averaged_scores = Zeros(N(metagraph))
    /\ block = 0 /\ ticks = 0 /\ prev_block = 0 /\ step = 0
    /\ pc = "load_state" /\ err = ""
    /\ fwd = NoForwards
    /\ store = NoStore
    /\ iter = FreshIter
    /\ commits = 0
    /\ call = NoCall

\* the steps of the program
LiveLoopStep ==
    \/ LoadState
    \/ Checkpoint
    \/ CheckRegistered
    \/ \E i \in 1..NumConcurrentForwards : ForwardStart(i)
    \/ \E i \in 1..NumConcurrentForwards : ForwardFinish(i)
    \/ Catch
    \/ ForwardsReturn
    \/ ShouldSetWeights
    \/ LiveSetWeights
    \/ SaveState
    \/ LiveSetPrevBlock
    \/ LiveEndIteration

\* a call of the program raises
LiveRaise == Raise \/ \E i \in 1..NumConcurrentForwards : ForwardRaise(i)

NextLive == LiveTick \/ LiveLoopStep \/ LiveRaise

\* the program keeps running and every dispatch returns (weak fairness of its
\* steps; no call has to raise); the block height keeps increasing, so it is again and again
\* higher when the loop reads it (strong fairness of the advance)
SpecLive ==
    InitLive /\ [][NextLive]_vars /\ WF_vars(LiveLoopStep) /\ SF_vars(LiveTick)

\* ------------------------------------------------------------ normalizer
\* texts are sequences of one-character strings

\* ch in s
HasChar(s, ch) == \E i \in 1..Len(s) : s[i] = ch

\* sub in s, for texts
HasText(s, sub) ==
    \E i \in 0..(Len(s) - Len(sub)) : SubSeq(s, i + 1, i + Len(sub)) = sub

\* s.strip(ch)
RECURSIVE StripChar(_, _)
StripChar(s, ch) ==
    IF s = << >> THEN s
    ELSE IF Head(s) = ch THEN StripChar(Tail(s), ch)
    ELSE IF s[Len(s)] = ch THEN StripChar(SubSeq(s, 1, Len(s) - 1), ch)
    ELSE s

\* s.split(ch): the pieces between the occurrences of ch, empty ones included
RECURSIVE SplitChar(_, _)
SplitChar(s, ch) ==
    IF ~HasChar(s, ch) THEN <<s>>
    ELSE LET i == CHOOSE j \in 1..Len(s) :
                     s[j] = ch /\ \A l \in 1..(j - 1) : s[l] # ch
         IN  <<SubSeq(s, 1, i - 1)>>
             \o SplitChar(SubSeq(s, i + 1, Len(s)), ch)

\* a join that puts nothing between the pieces
RECURSIVE JoinCharTight(_, _)
JoinCharTight(pieces, ch) ==
    IF pieces = << >> THEN << >>
    ELSE pieces[1] \o JoinCharTight(Tail(pieces), ch)

\* ch.join(pieces)
RECURSIVE JoinChar(_, _)
JoinChar(pieces, ch) ==
    IF pieces = << >> THEN << >>
    ELSE IF Len(pieces) = 1 THEN pieces[1]
    ELSE pieces[1] \o <<ch>> \o JoinChar(Tail(pieces), ch)

\* keeping the first words instead of the last
FirstItems(items, n) ==
    IF Len(items) <= n THEN items ELSE SubSeq(items, 1, n)

\* items[-n:]
LastItems(items, n) ==
    IF Len(items) <= n THEN items
    ELSE SubSeq(items, Len(items) - n + 1, Len(items))

\* pieces[-1]
LastPiece(pieces) == pieces[Len(pieces)]

\* the marker looked for in task_name
FollowupMarker == <<"f", "o", "l", "l", "o", "w", "u", "p">>

\* a normalizer that does not cut the text at its first question mark
RestrictFormatKeepsQuestions(text, task_name) ==
    LET completion == StripChar(text, ".")
    IN  IF HasText(task_name, FollowupMarker) /\ Len(completion) > 0
        THEN IF HasChar(completion, "?")
             THEN JoinChar(LastItems(SplitChar(LastPiece(SplitChar(
                      completion, ".")), " "), MaxWords), " ") \o <<"?">>
             ELSE JoinChar(LastItems(SplitChar(LastPiece(SplitChar(
                      LastPiece(SplitChar(completion, ".")), ".")), " "),
                      MaxWords), " ")
        ELSE text

\* a normalizer that writes the stripped text back for every task
RestrictFormatStripsAll(text, task_name) ==
    LET completion == StripChar(text, ".")
    IN  IF HasText(task_name, FollowupMarker) /\ Len(completion) > 0
        THEN IF HasChar(completion, "?")
             THEN JoinChar(LastItems(SplitChar(LastPiece(SplitChar(
                      SplitChar(completion, "?")[1], ".")), " "), MaxWords),
                      " ") \o <<"?">>
             ELSE JoinChar(LastItems(SplitChar(LastPiece(SplitChar(
                      LastPiece(SplitChar(completion, ".")), ".")), " "),
                      MaxWords), " ")
        ELSE completion

\* the body of the loop of restrict_format_followup_responses (lines 86-99):
\* response.completion after it, for response.completion = text before it
RestrictFormat(text, task_name) ==
    LET completion == StripChar(text, ".")
    IN  IF HasText(task_name, FollowupMarker) /\ Len(completion) > 0
        THEN IF HasChar(completion, "?")
             THEN JoinChar(LastItems(SplitChar(LastPiece(SplitChar(
                      SplitChar(completion, "?")[1], ".")), " "), MaxWords),
                      " ") \o <<"?">>
             ELSE JoinChar(LastItems(SplitChar(LastPiece(SplitChar(
                      LastPiece(SplitChar(completion, ".")), ".")), " "),
                      MaxWords), " ")
        ELSE text

\* restrict_format_followup_responses(self, responses, task_name): the
\* completions of the responses after the call
RestrictFormatFollowupResponses(completions, task_name) ==
    [i \in 1..Len(completions) |-> RestrictFormat(completions[i], task_name)]

\* --------------------------------------------- specification: normalizer
\* the characters of the short completions: a letter, the space, the period
\* and the question mark
Chars == {"a", " ", ".", "?"}

\* every text over Chars of at most MaxLen characters
ShortTexts == UNION {[1..n -> Chars] : n \in 0..MaxLen}

\* the completion of scenario D: "What do you like?."
WhatDoYouLike == <<"W", "h", "a", "t", " ", "d", "o", " ", "y", "o", "u", " ", "l", "i", "k", "e", "?", ".">>

\* two sentences and two questions: "Hi. Who are you? And why?"
TwoQuestions == <<"H", "i", ".", " ", "W", "h", "o", " ", "a", "r", "e", " ", "y", "o", "u", "?", " ", "A", "n", "d", " ", "w", "h", "y", "?">>

\* n words separated by single spaces, the first of them "b", the others "a"
RECURSIVE WordRun(_)
WordRun(n) == IF n <= 1 THEN <<"b">> ELSE WordRun(n - 1) \o <<" ", "a">>

\* texts around the word limit: MaxWords - 1 .. MaxWords + 2 words, after
\* nothing or an earlier sentence, before nothing, a question mark, a
\* question mark and more text, or a period
LongTexts ==
    {pre \o WordRun(n) \o post :
        n \in (MaxWords - 1)..(MaxWords + 2),
        pre \in {<< >>, <<"a", ".">>},
        post \in {<< >>, <<"?">>, <<"?", "a">>, <<".">>}}

Completions == ShortTexts \cup LongTexts \cup {WhatDoYouLike, TwoQuestions}

\* task names: "followup", "followup2", "answer", "follow"
TaskNames ==
    {FollowupMarker, FollowupMarker \o <<"2">>,
     <<"a", "n", "s", "w", "e", "r">>, <<"f", "o", "l", "l", "o", "w">>}

\* the response batches of the calls: none, one response with any of the
\* completions, or scenario D next to one of the short or long completions
ResponseBatches ==
    {<< >>} \cup {<<c>> : c \in Completions}
            \cup {<<WhatDoYouLike, c>> : c \in LongTexts}

\* before the first call of restrict_format_followup_responses on a batch:
\* call.input holds the completions as received, call.completions the
\* current ones
InitNormalize ==
    /\ config \in {c \in AllConfigs : /\ ~c.mock_reward_models
                                      /\ c.mistral_weight = Unit
                                      /\ ~c.blacklist_off /\ ~c.nsfw_off
                                      /\ ~c.relevance_off /\ ~c.diversity_off
                                      /\ c.epoch_length_override = 0}
    /\ NoSetup /\ NoRun
    /\ metagraph = EmptyMetagraph
    /\ moving_averaged_scores = Zeros(0)
    /\ \E t \in TaskNames, r \in ResponseBatches :
          call = [fn |-> "restrict_format_followup_responses",
                  task_name |-> t, input |-> r, once |-> r, completions |-> r,
                  applied |-> 0]

\* one call restrict_format_followup_responses(self, responses, task_name);
\* the batch is normalized a first and a second time
CallRestrictFormat ==
    /\ call.fn = "restrict_format_followup_responses"
    /\ call.applied < 2
    /\ LET out == RestrictFormatFollowupResponses(call.completions,
                                                  call.task_name)
       IN  call' = [call EXCEPT !.completions = out,
                                !.once = IF call.applied = 0 THEN out ELSE @,
                                !.applied = @ + 1]
    /\ UNCHANGED <<config, reward_weights, reward_functions, masking_functions,
                   penalty_functions, metagraph, moving_averaged_scores,
                   prev_block, step, block, ticks, pc, err, fwd, store, iter,
                   commits>>

NextNormalize == CallRestrictFormat

SpecNormalize == InitNormalize /\ [][NextNormalize]_vars

\* ------------------------------ specification: the resync of a boundary
\* trust values a peer can have accumulated: 0, 0.5, 1
TrustVals == {0, Frac(1, 2), Unit}

\* checkpoint(self) at line 326 on a validator with any accumulated trust;
\* call keeps the snapshot and the trust vector the resync started from
InitResync ==
    /\ Constructed(RunConfig(1, Frac(1, 2), 1))
    /\ metagraph \in RunSnapshots
    /\ moving_averaged_scores \in [0..(N(metagraph) - 1) -> TrustVals]
    /\ block = 0 /\ ticks = 0 /\ prev_block = 0 /\ step = 0
    /\ pc = "boundary" /\ err = ""
    /\ fwd = NoForwards
    /\ store = NoStore
    /\ iter = FreshIter
    /\ commits = 0
    /\ call = [fn |-> "checkpoint", resyncs |-> 0, old |-> metagraph,
               before |-> moving_averaged_scores]

NextResync == Checkpoint

SpecResync == InitResync /\ [][NextResync]_vars

\* ---------------------------- specification: the forwards of one iteration
\* sample sizes of the forwards: one peer, or two
ForwardSampleSizes == {1, 2}

\* run_until_complete(run_forward()) of one iteration (line 321) on a
\* validator that holds a fresh or a restored trust vector; call logs the
\* uids and rewards of the forwards in the order they complete
InitForwards ==
    /\ \E k \in ForwardSampleSizes, alpha \in Alphas :
          Constructed(RunConfig(k, alpha, 0))
    /\ metagraph \in {Snapshot(h) : h \in {<<Me, "a", "b">>, <<Me, "a">>,
                                            <<Me>>}}
    /\ moving_averaged_scores \in LoadedTrust(N(metagraph))
    /\ block = 0 /\ ticks = 0 /\ prev_block = 0 /\ step = 0
    /\ pc = "forwards" /\ err = ""
    /\ fwd = NoForwards
    /\ store = NoStore
    /\ iter = FreshIter
    /\ commits = 0
    /\ call = [fn |-> "forwards", start |-> moving_averaged_scores,
               log |-> << >>]

NextForwards ==
    \/ \E i \in 1..NumConcurrentForwards : ForwardStart(i)
    \/ \E i \in 1..NumConcurrentForwards : ForwardFinish(i)
    \/ \E i \in 1..NumConcurrentForwards : ForwardRaise(i)

SpecForwards == InitForwards /\ [][NextForwards]_vars

\* ------------------------------------------------------ claims: sampler
\* C5: get_random_uids(k, exclude) returns at most k uids, all distinct, each
\* available under the stake ceiling and none in exclude; when fewer than k
\* peers are eligible it returns exactly the set of all eligible peers.
C5_SampleContract ==
    call.fn = "get_random_uids" =>
        LET uids == call.uids
            eligible == {u \in 0..(Len(metagraph.S) - 1) :
                            /\ metagraph.S[u + 1] < VpermitTaoLimit
                            /\ (call.exclude.is_none
                                \/ u \notin call.exclude.items)}
        IN  /\ Len(uids) <= call.k
            /\ \A i, j \in 1..Len(uids) : uids[i] = uids[j] => i = j
            /\ \A i \in 1..Len(uids) : uids[i] \in eligible
            /\ Cardinality(eligible) < call.k => Range(uids) = eligible
            /\ Cardinality(eligible) >= call.k => Len(uids) = call.k

\* a call with an excluded peer, a peer at the stake ceiling, and fewer
\* eligible peers (two) than the three asked for
C5_Witness ==
    /\ call.fn = "get_random_uids"
    /\ call.k = 3
    /\ Len(call.uids) = 2
    /\ ~call.exclude.is_none
    /\ \E u \in Uids(metagraph) : u \in call.exclude.items
    /\ \E u \in Uids(metagraph) :
          /\ metagraph.S[u + 1] = VpermitTaoLimit
          /\ u \notin call.exclude.items

\* -------------------------------------------------- claims: construction
\* C6: for all configurations, the mock configuration included, a
\* construction that does not fail with an error ends with the weights
\* summing to 1 and as many weights as weighted functions.
C6_AllConfigsSumToOne ==
    pc \in {"init_epoch", "load_state"} =>
        /\ SumSeq(reward_weights) = Unit
        /\ Len(reward_weights) = Len(reward_functions)

\* -------------------------------------------- claims: reward aggregation
\* C3: if any masking function returns 0 for response i, the final reward[i]
\* is 0, whatever the weighted scores and whatever the other masking and the
\* penalty functions return.
C3_MaskZeroes ==
    call.fn = "compute_rewards" =>
        \A i \in 1..call.n :
            (\E j \in 1..Len(call.battery.masks) :
                 call.battery.masks[j][i] = 0)
            => call.rewards[i] = 0

\* a real setup, a response with a full weighted score and no penalty that
\* the second masking function alone flags, beside an unflagged response
C3_Witness ==
    /\ call.fn = "compute_rewards"
    /\ reward_weights = <<Unit>>
    /\ call.n >= 2
    /\ \E i, k \in 1..call.n :
          /\ call.battery.scores[1][i] = Unit
          /\ call.battery.masks[1][i] = Unit
          /\ call.battery.masks[2][i] = 0
          /\ \A j \in 1..3 : call.battery.penalties[j][i] = Unit
          /\ call.rewards[i] = 0
          /\ call.rewards[k] = Unit

\* sum and product of the i-th entries of a sequence of vectors
RECURSIVE WeightedSumAt(_, _, _, _)
WeightedSumAt(weights, vecs, i, j) ==
    IF j > Len(vecs) THEN 0
    ELSE Mul(weights[j], vecs[j][i]) + WeightedSumAt(weights, vecs, i, j + 1)
RECURSIVE ProductAt(_, _, _)
ProductAt(vecs, i, j) ==
    IF j > Len(vecs) THEN Unit
    ELSE Mul(vecs[j][i], ProductAt(vecs, i, j + 1))

\* C4: compute_rewards returns a vector of length len(responses) whose i-th
\* entry is (sum of weight_j * score_j[i]) * (product of mask_j[i]) *
\* (product of applied_penalty_j[i]); weighted reward [0.5, 0.5, 0.5] with
\* mask [1, 0, 1] and no penalty gives [0.5, 0, 0.5].
C4_RewardFormula ==
    call.fn = "compute_rewards" =>
        /\ Len(call.rewards) = call.n
        /\ \A i \in 1..call.n :
              call.rewards[i] =
                  Mul(Mul(WeightedSumAt(reward_weights, call.battery.scores, i, 1),
                          ProductAt(call.battery.masks, i, 1)),
                      ProductAt(call.battery.penalties, i, 1))
        /\ ( /\ call.n = 3
             /\ reward_weights = <<Unit>>
             /\ call.battery.scores[1] = <<Frac(1, 2), Frac(1, 2), Frac(1, 2)>>
             /\ call.battery.masks = << <<Unit, 0, Unit>>, <<Unit, Unit, Unit>> >>
             /\ \A j \in 1..3 : call.battery.penalties[j] = <<Unit, Unit, Unit>> )
           => call.rewards = <<Frac(1, 2), 0, Frac(1, 2)>>

\* scenario B: three responses scored 0.5 each, the blacklist flags the second
C4_Witness ==
    /\ call.fn = "compute_rewards"
    /\ call.n = 3
    /\ reward_weights = <<Unit>>
    /\ call.battery.scores[1] = <<Frac(1, 2), Frac(1, 2), Frac(1, 2)>>
    /\ call.battery.masks = << <<Unit, 0, Unit>>, <<Unit, Unit, Unit>> >>
    /\ \A j \in 1..3 : call.battery.penalties[j] = <<Unit, Unit, Unit>>
    /\ call.rewards = <<Frac(1, 2), 0, Frac(1, 2)>>

\* -------------------------------------------------- claims: trust update
\* v decayed n times at rate (1 - alpha)
RECURSIVE Decayed(_, _, _)
Decayed(v, alpha, n) ==
    IF n = 0 THEN v ELSE Decayed(Mul(Unit - alpha, v), alpha, n - 1)

\* C1 as stated: a registry position that is not among the queried uids has
\* its trust multiplied by (1 - alpha) in every update, so a peer never
\* queried across N rounds ends with (1 - alpha)^N times its starting trust.
C1_UnqueriedDecays ==
    (call.fn = "run_step" /\ ~call.raised) =>
        \A u \in DOMAIN moving_averaged_scores :
            u \notin call.touched =>
                moving_averaged_scores[u] =
                    Decayed(call.start[u], config.moving_average_alpha,
                            call.rounds)

\* C2: after an update with queried uids and rewards r, the trust at uids[i]
\* is alpha * r[i] + (1 - alpha) * previous trust at uids[i]; from all-zero
\* trust with alpha = 0.5 and rewards [0.2, 0.4, 0.6] the sampled positions
\* become [0.1, 0.2, 0.3] and the other positions stay 0.
C2_QueriedUpdate ==
    (call.fn = "run_step" /\ ~call.raised) =>
        LET alpha == config.moving_average_alpha
            uids  == call.uids
        IN  /\ \A i \in 1..Len(uids) :
                  moving_averaged_scores[uids[i]] =
                      Mul(alpha, call.rewards[i])
                      + Mul(Unit - alpha, call.before[uids[i]])
            /\ ( /\ alpha = Frac(1, 2)
                 /\ \A u \in DOMAIN call.before : call.before[u] = 0
                 /\ call.rewards = <<Frac(1, 5), Frac(2, 5), Frac(3, 5)>> )
               => /\ \A i \in 1..3 :
                        moving_averaged_scores[uids[i]] = Frac(i, 10)
                  /\ \A u \in DOMAIN moving_averaged_scores :
                        u \notin Range(uids) => moving_averaged_scores[u] = 0

\* scenario A on a registry of four peers, sampled out of registry order
C2_Witness ==
    /\ call.fn = "run_step" /\ ~call.raised
    /\ N(metagraph) = 4
    /\ config.moving_average_alpha = Frac(1, 2)
    /\ \A u \in DOMAIN call.before : call.before[u] = 0
    /\ call.uids = <<3, 1, 2>>
    /\ call.rewards = <<Frac(1, 5), Frac(2, 5), Frac(3, 5)>>
    /\ moving_averaged_scores =
          (0 :> 0 @@ 1 :> Frac(1, 5) @@ 2 :> Frac(3, 10) @@ 3 :> Frac(1, 10))

\* ------------------------------------------------------ claims: run loop
\* the program points of the boundary handling, lines 326-332
BoundaryPcs ==
    {"boundary", "should_set_weights", "set_weights", "save_state",
     "set_prev_block"}

\* the height difference should_update() saw in this iteration exceeds the
\* epoch length
Exceeded == iter.cur_block - iter.prev_block > config.epoch_length

\* C7: the boundary handling (resync, optional commit, height update) runs in
\* an iteration if and only if, at the check after the iteration's forwards,
\* current height minus last-committed height is strictly greater than
\* epoch_length; it runs exactly once in such an iteration and never when the
\* difference is <= epoch_length.
C7_BoundaryIffExceeded ==
    /\ iter.resyncs <= 1 /\ iter.height_updates <= 1
    /\ pc \in BoundaryPcs => iter.checked /\ Exceeded
    /\ pc = "end_iteration" =>
          /\ iter.checked
          /\ Exceeded => iter.resyncs = 1 /\ iter.height_updates = 1
          /\ ~Exceeded => /\ iter.resyncs = 0 /\ iter.height_updates = 0
                          /\ iter.should_set = "none" /\ iter.commit = "none"
                          /\ prev_block = iter.prev_block

\* the second iteration ends after a boundary handled at a difference of
\* epoch_length + 1, the first having ended without one
C7_Witness ==
    /\ pc = "end_iteration"
    /\ step = 1
    /\ commits = 0
    /\ iter.prev_block = 0
    /\ iter.cur_block = config.epoch_length + 1
    /\ iter.resyncs = 1 /\ iter.height_updates = 1

\* C8: at every epoch boundary prev_block is set to the current block height
\* whether the commit was skipped, succeeded or failed; a failing commit is
\* not fatal: after it the loop goes on, and only a later call that raises
\* (the checkpoint write, a read of the height, the logging rollover) can
\* still end the loop.
C8_HeightRecorded ==
    /\ (pc = "end_iteration" /\ iter.resyncs = 1) =>
          /\ \/ iter.should_set = "no" /\ iter.commit = "none"
             \/ iter.should_set = "yes" /\ iter.commit \in {"ok", "failed"}
          /\ prev_block = block
          /\ err = ""
    /\ (iter.commit = "failed" /\ pc = "stopped") =>
          err \in {"save_state", "set_prev_block", "end_iteration",
                   "check_registered"}

\* a boundary whose commit failed has recorded the new height and the
\* iteration ends normally
C8_Witness ==
    /\ pc = "end_iteration"
    /\ iter.commit = "failed"
    /\ prev_block = block
    /\ block > iter.prev_block + config.epoch_length
    /\ err = ""

\* C9: set_weights is invoked only inside a boundary whose should_set_weights
\* check passed, only after that boundary's resync, and only when no forward
\* of this or an earlier iteration is in flight.
C9_CommitSettled ==
    [][commits' # commits =>
          /\ pc = "set_weights"
          /\ iter.checked /\ Exceeded
          /\ iter.should_set = "yes"
          /\ iter.resyncs = 1
          /\ \A i \in DOMAIN fwd : fwd[i].pc = "done"]_vars

\* a commit of a trust vector that the iteration's forwards have raised
C9_Witness ==
    /\ pc = "save_state"
    /\ commits = 1
    /\ iter.commit = "ok"
    /\ iter.resyncs = 1
    /\ \E u \in DOMAIN moving_averaged_scores : moving_averaged_scores[u] > 0

\* C10: an iteration that starts with the validator's hotkey absent from the
\* registry snapshot runs no forward, is followed by no commit, and ends the
\* loop, which takes no further step; so does the first iteration after a
\* resync that dropped the hotkey.
C10_UnregisteredStops ==
    [][/\ (pc = "check_registered" /\ ~Registered(metagraph)) =>
              /\ pc' = "stopped"
              /\ err' = "not registered"
              /\ \A i \in DOMAIN fwd' : fwd'[i].pc = "idle"
              /\ commits' = commits
       /\ pc # "stopped"]_vars

\* the boundary of the first iteration committed and its resync dropped the
\* hotkey: the second iteration stops the loop
C10_Witness ==
    /\ pc = "stopped"
    /\ err = "not registered"
    /\ step = 1
    /\ commits = 1
    /\ ~Registered(metagraph)
    /\ \A i \in DOMAIN fwd : fwd[i].pc = "idle"

\* C11: an error raised inside a loop iteration (by a forward, the resync, the
\* commit or the checkpoint write) is caught at the top level of run() and
\* ends the loop: the step that catches it stops the loop without counting
\* the round or committing, and afterwards no round is started, no commit is
\* made and the iteration is not retried. From the raise of a forward to the
\* catch only the forwards of the same iteration run on: the loop stays at
\* line 321, the round is not counted, nothing is committed or stored, and
\* the forward that raised is not started again.
C11_ErrorEndsLoop ==
    [][/\ err' # err => /\ err = ""
                        /\ pc' = "stopped"
                        /\ step' = step /\ commits' = commits
                        /\ moving_averaged_scores' = moving_averaged_scores
       /\ err # "" => /\ pc = "stopped" /\ pc' = "stopped"
                      /\ step' = step /\ commits' = commits
                      /\ fwd' = fwd /\ store' = store
                      /\ moving_averaged_scores' = moving_averaged_scores
       /\ (\E i \in DOMAIN fwd : fwd[i].pc = "raised") =>
              /\ pc = "forwards" => pc' \in {"forwards", "stopped"}
              /\ pc' = "stopped" => err' # ""
              /\ step' = step /\ commits' = commits /\ store' = store
              /\ \A j \in DOMAIN fwd :
                    /\ fwd[j].pc = "raised" => fwd'[j].pc = "raised"
                    /\ fwd[j].pc = "done" => fwd'[j].pc = "done"]_vars

\* the first forward of the second iteration raised, after a first iteration
\* whose boundary committed; the second forward completed its update before
\* the exception was caught, and the loop has stopped inside the iteration
C11_Witness ==
    /\ pc = "stopped"
    /\ err = "forward raised"
    /\ step = 1
    /\ commits = 1
    /\ fwd[1].pc = "raised" /\ fwd[2].pc = "done"

\* ------------------------------------------------- claims: concurrency
\* the trust vector after one forward's update, entry by entry: a queried
\* uid moves towards its reward, every other entry stays
Folded(mas, uids, rewards, alpha) ==
    [u \in DOMAIN mas |->
        IF \E i \in 1..Len(uids) : uids[i] = u
        THEN LET i == CHOOSE j \in 1..Len(uids) : uids[j] = u
             IN  Mul(alpha, rewards[i]) + Mul(Unit - alpha, mas[u])
        ELSE mas[u]]

\* the updates of the logged forwards applied one after another in the order
\* given by the sequence of log positions
RECURSIVE FoldedInOrder(_, _, _, _)
FoldedInOrder(mas, log, order, alpha) ==
    IF order = << >> THEN mas
    ELSE FoldedInOrder(Folded(mas, log[Head(order)].uids,
                              log[Head(order)].rewards, alpha),
                       log, Tail(order), alpha)

\* the orders in which n forwards can be applied
Orders(n) == {o \in [1..n -> 1..n] : \A i, j \in 1..n : o[i] = o[j] => i = j}

\* C12: with F > 1 forwards in one iteration and overlapping query windows,
\* each forward's read-modify-write of the trust vector is atomic: whenever
\* some of the forwards have completed, and so after the iteration, the trust
\* vector is the result of applying their updates one after another in some
\* order (no lost update, no partial scatter or decay).
C12_ForwardsSerialized ==
    (call.fn = "forwards" /\ \A i \in 1..Len(call.log) : ~call.log[i].raised)
        => \E o \in Orders(Len(call.log)) :
              moving_averaged_scores =
                  FoldedInOrder(call.start, call.log, o,
                                config.moving_average_alpha)

\* two forwards whose query windows overlapped have both completed; they
\* queried the same peer with different rewards, so the order of the two
\* updates shows in the trust vector
C12_Witness ==
    /\ call.fn = "forwards"
    /\ Len(call.log) = NumConcurrentForwards
    /\ \A i \in DOMAIN fwd : fwd[i].pc = "done"
    /\ config.moving_average_alpha = Frac(1, 2)
    /\ call.log[1].uids = call.log[2].uids
    /\ call.log[1].rewards # call.log[2].rewards
    /\ moving_averaged_scores # call.start
    /\ moving_averaged_scores #
          FoldedInOrder(call.start, call.log, <<2, 1>>,
                        config.moving_average_alpha)

\* --------------------------------------------------- claims: resync
\* C13: after the resync of a boundary and before the next trust update, the
\* trust vector has the length of the new registry, a peer retained across
\* the resync keeps its accumulated trust (at its new uid), a peer absent
\* from the new snapshot has no entry, and a newly added peer starts at 0.
C13_RemapByIdentity ==
    (call.fn = "checkpoint" /\ call.resyncs = 1) =>
        /\ DOMAIN moving_averaged_scores = 0..(N(metagraph) - 1)
        /\ \A u \in 0..(N(metagraph) - 1) :
              /\ \A v \in 0..(N(call.old) - 1) :
                    call.old.hotkeys[v + 1] = metagraph.hotkeys[u + 1]
                        => moving_averaged_scores[u] = call.before[v]
              /\ metagraph.hotkeys[u + 1] \notin Range(call.old.hotkeys)
                    => moving_averaged_scores[u] = 0

\* a resync that adds peer b at uid 1 and moves peer a, who had trust 0.5,
\* from uid 1 to uid 2
C13_Witness ==
    /\ call.fn = "checkpoint" /\ call.resyncs = 1
    /\ call.old.hotkeys = <<Me, "a">>
    /\ call.before = (0 :> 0 @@ 1 :> Frac(1, 2))
    /\ metagraph.hotkeys = <<Me, "b", "a">>
    /\ moving_averaged_scores = (0 :> 0 @@ 1 :> 0 @@ 2 :> Frac(1, 2))

\* --------------------------------------------------- claims: normalizer
\* C14: restrict_format_followup_responses is idempotent: for every
\* completion and every task name, applying it twice leaves each response's
\* completion equal to the result of applying it once.
C14_Idempotent ==
    (call.fn = "restrict_format_followup_responses" /\ call.applied = 2)
        => call.completions = call.once

\* a follow-up completion of two sentences and two questions, changed by the
\* first call and left alone by the second
C14_Witness ==
    /\ call.fn = "restrict_format_followup_responses" /\ call.applied = 2
    /\ call.task_name = FollowupMarker
    /\ call.input = <<TwoQuestions>>
    /\ call.once = << <<" ", "W", "h", "o", " ", "a", "r", "e", " ", "y", "o", "u", "?">> >>
    /\ call.completions = call.once

\* the number of space-separated words of a text
WordCount(s) == Cardinality({i \in 1..Len(s) : s[i] = " "}) + 1

\* the text ends with a question mark
EndsWithQuestion(s) == s # << >> /\ s[Len(s)] = "?"

\* C15 as stated: for a follow-up task the completion "What do you like?."
\* is normalized to "what do you like?", at most 40 words ending in "?".
C15_ScenarioDLowercased ==
    ( /\ call.fn = "restrict_format_followup_responses" /\ call.applied >= 1
      /\ call.task_name = FollowupMarker
      /\ call.input = <<WhatDoYouLike>> )
    => /\ call.once = << <<"w", "h", "a", "t", " ", "d", "o", " ", "y", "o", "u", " ", "l", "i", "k", "e", "?">> >>
       /\ WordCount(call.once[1]) <= MaxWords
       /\ EndsWithQuestion(call.once[1])

\* C15, amended: for a follow-up task the completion "What do you like?." is
\* normalized to "What do you like?", with the case of its letters kept: a
\* text of at most 40 words ending in "?".
C15_ScenarioD ==
    ( /\ call.fn = "restrict_format_followup_responses" /\ call.applied >= 1
      /\ call.task_name = FollowupMarker
      /\ call.input = <<WhatDoYouLike>> )
    => /\ call.once = << <<"W", "h", "a", "t", " ", "d", "o", " ", "y", "o", "u", " ", "l", "i", "k", "e", "?">> >>
       /\ WordCount(call.once[1]) <= MaxWords
       /\ EndsWithQuestion(call.once[1])

\* scenario D has been normalized
C15_Witness ==
    /\ call.fn = "restrict_format_followup_responses" /\ call.applied = 1
    /\ call.task_name = FollowupMarker
    /\ call.input = <<WhatDoYouLike>>
    /\ call.once[1][1] = "W"
    /\ Len(call.once[1]) = Len(WhatDoYouLike) - 1

\* --------------------------------------------------- claims: empty round
\* C16 as stated: a run_step in which the sampler returns no peers, so that
\* the response batch is empty, completes without error: the reward vector is
\* empty, the best-response selection is defined and the trust vector is
\* left unchanged.
C16_EmptyRoundCompletes ==
    (call.fn = "run_step" /\ call.uids = << >>) =>
        /\ call.rewards = << >>
        /\ HasArgmax(call.rewards)
        /\ ~call.raised
        /\ moving_averaged_scores = call.before

\* ------------------------------------------ claims: normalizer contract
\* the positions of ch in s
Positions(s, ch) == {i \in 1..Len(s) : s[i] = ch}

\* the least and the greatest element of a non-empty set of numbers
Least(S) == CHOOSE x \in S : \A y \in S : x <= y
Greatest(S) == CHOOSE x \in S : \A y \in S : x >= y

\* the text before the first ch of s (s itself when it has none)
BeforeFirst(s, ch) ==
    IF Positions(s, ch) = {} THEN s
    ELSE SubSeq(s, 1, Least(Positions(s, ch)) - 1)

\* the text after the last ch of s (s itself when it has none)
AfterLast(s, ch) ==
    IF Positions(s, ch) = {} THEN s
    ELSE SubSeq(s, Greatest(Positions(s, ch)) + 1, Len(s))

\* the last n space-separated words of s: s itself when it has at most n
\* words, else what follows the space that precedes the n-th word from the end
LastWords(s, n) ==
    IF WordCount(s) <= n THEN s
    ELSE LET sp == Positions(s, " ")
             cut == CHOOSE i \in sp :
                       Cardinality({j \in sp : j >= i}) = n
         IN  SubSeq(s, cut + 1, Len(s))

\* C17: for a follow-up task and a completion that is non-empty after its
\* leading and trailing periods are stripped, the normalized completion has
\* no period and at most 40 space-separated words, and ends with a question
\* mark exactly when the stripped input contained one; it is then the last
\* sentence fragment before the first question mark plus "?", and without a
\* question mark the final sentence fragment with no suffix (the fragment
\* being cut to its last 40 words).
C17_FollowupContract ==
    (call.fn = "restrict_format_followup_responses" /\ call.applied >= 1
     /\ HasText(call.task_name, FollowupMarker))
    => \A i \in 1..Len(call.input) :
          LET c   == StripChar(call.input[i], ".")
              out == call.once[i]
          IN  c # << >> =>
                /\ Positions(out, ".") = {}
                /\ WordCount(out) <= MaxWords
                /\ EndsWithQuestion(out) <=> Positions(c, "?") # {}
                /\ Positions(c, "?") # {} =>
                      out = LastWords(AfterLast(BeforeFirst(c, "?"), "."),
                                      MaxWords) \o <<"?">>
                /\ Positions(c, "?") = {} =>
                      out = LastWords(AfterLast(c, "."), MaxWords)

\* a follow-up completion of an earlier sentence, a question of 41 words and
\* more text: the question is kept without its first word
C17_Witness ==
    /\ call.fn = "restrict_format_followup_responses" /\ call.applied = 1
    /\ call.task_name = FollowupMarker
    /\ call.input = << <<"a", ".">> \o WordRun(MaxWords + 1) \o <<"?", "a">> >>
    /\ call.once = << SubSeq(WordRun(MaxWords + 1), 3, 2 * MaxWords + 1)
                      \o <<"?">> >>
    /\ WordCount(call.once[1]) = MaxWords

\* C18: for every task name without the follow-up marker the call leaves
\* every response's completion unchanged, leading and trailing periods
\* included; so it does for a follow-up task and a completion that is empty
\* after its periods are stripped.
C18_OthersUnchanged ==
    (call.fn = "restrict_format_followup_responses" /\ call.applied >= 1)
    => /\ Len(call.once) = Len(call.input)
       /\ \A i \in 1..Len(call.input) :
             (\/ ~HasText(call.task_name, FollowupMarker)
              \/ StripChar(call.input[i], ".") = << >>)
                => call.once[i] = call.input[i]

\* the completion ".a?." of a task that is no follow-up is kept as it is
C18_Witness ==
    /\ call.fn = "restrict_format_followup_responses" /\ call.applied = 1
    /\ call.task_name = <<"a", "n", "s", "w", "e", "r">>
    /\ call.input = << <<".", "a", "?", ".">> >>
    /\ call.once = call.input

\* --------------------------------------------------- claims: checkpoint
\* the checkpoint store holds the validator state of this boundary: the trust
\* vector, the last-committed height as it was at the write, and the round
\* counter
CheckpointWritten ==
    /\ store.saved
    /\ store.trust = moving_averaged_scores
    /\ store.prev_block = iter.prev_block
    /\ store.step = step

\* C19: whenever the commit of a boundary succeeds, a checkpoint of the
\* validator state is written in the same boundary handling, after the
\* commit call and before the next round starts; the checkpoint is loaded
\* once, before the first round.
C19_CheckpointAfterCommit ==
    /\ []((iter.commit = "ok" /\ pc \in {"set_prev_block", "end_iteration"})
              => CheckpointWritten)
    /\ [][/\ pc' # "load_state"
          /\ pc = "load_state" =>
                /\ step = 0 /\ commits = 0 /\ fwd = NoForwards
                /\ store.saved =>
                      /\ moving_averaged_scores' = store.trust
                      /\ prev_block' = store.prev_block
                      /\ step' = store.step
          /\ (store' # store) => (pc = "save_state" /\ iter.commit # "none")]_vars

\* the second iteration ends after a boundary whose commit succeeded: the
\* store holds the trust vector the forwards have built and round 1
C19_Witness ==
    /\ pc = "end_iteration"
    /\ step = 1
    /\ iter.commit = "ok"
    /\ CheckpointWritten
    /\ store.step = 1
    /\ \E u \in DOMAIN store.trust : store.trust[u] > 0

\* --------------------------------------------------- claims: epoch state
\* C20: in the run loop, a boundary is entered only at a height that exceeds
\* the last-committed height by more than epoch_length, and that height is
\* the one the previous boundary recorded, whether its commit was made,
\* skipped or failed, because prev_block changes only in the height update
\* of a boundary, where it takes the current height and never decreases
\* (the block height being non-decreasing).
C20_BoundarySpacing ==
    [][pc # "load_state" =>
          /\ prev_block' >= prev_block
          /\ prev_block' # prev_block =>
                /\ pc = "set_prev_block" /\ iter.resyncs = 1
                /\ prev_block' = block
                /\ prev_block' >= iter.cur_block
          /\ (pc' = "boundary" /\ pc # "boundary") =>
                block - prev_block > config.epoch_length]_vars

\* the second iteration is in its boundary, entered epoch_length + 1 blocks
\* above the height the first boundary recorded after skipping its commit
C20_Witness ==
    /\ pc = "boundary"
    /\ step = 1
    /\ commits = 0
    /\ prev_block > 0
    /\ iter.cur_block = block
    /\ block = prev_block + config.epoch_length + 1

\* --------------------------------------------------- claims: trust range
\* every entry of the vector lies in [0, 1]
InUnitRange(v) == \A u \in DOMAIN v : 0 <= v[u] /\ v[u] <= Unit

\* C21: if every reward lies in [0, 1], alpha lies in (0, 1] and the trust
\* vector starts with every entry in [0, 1], then after any sequence of trust
\* updates (any number of forwards, in any interleaving) every entry of the
\* trust vector is still in [0, 1].
C21_TrustInUnitRange ==
    ( /\ call.fn = "forwards"
      /\ 0 < config.moving_average_alpha
      /\ config.moving_average_alpha <= Unit
      /\ InUnitRange(call.start)
      /\ \A i \in 1..Len(call.log) :
            \A j \in 1..Len(call.log[i].rewards) :
               0 <= call.log[i].rewards[j] /\ call.log[i].rewards[j] <= Unit )
    => InUnitRange(moving_averaged_scores)

\* two interleaved forwards with alpha = 0.5 on restored trust [1, 0.2, 1]:
\* one gave peer 1 the reward 1, one gave peer 2 the reward 0, and the trust
\* vector holds the bound 1 and values strictly inside the range
C21_Witness ==
    /\ call.fn = "forwards"
    /\ Len(call.log) = NumConcurrentForwards
    /\ \A i \in 1..Len(call.log) : ~call.log[i].raised
    /\ config.moving_average_alpha = Frac(1, 2)
    /\ call.start = (0 :> Unit @@ 1 :> Frac(1, 5) @@ 2 :> Unit)
    /\ \E i \in 1..2 : call.log[i].uids = <<1>> /\ call.log[i].rewards = <<Unit>>
    /\ \E i \in 1..2 : call.log[i].uids = <<2>> /\ call.log[i].rewards = <<0>>
    /\ moving_averaged_scores =
          (0 :> Unit @@ 1 :> Frac(3, 5) @@ 2 :> Frac(1, 2))

\* --------------------------------------------------- claims: snapshot
\* some forward has sampled its uids and awaits its responses
InFlight == \E i \in DOMAIN fwd : fwd[i].pc = "query"

\* C22: the registry snapshot is never replaced while a forward is in
\* flight: a resync happens only in boundary handling (or before the loop),
\* when every forward of the iteration has completed, so the uids a forward
\* sampled before its query are uids of the registry, and the trust vector
\* has the length it had then, when the forward scatters its rewards.
C22_SnapshotStableInFlight ==
    /\ [](\A i \in DOMAIN fwd :
             fwd[i].pc = "query" =>
                /\ pc \in {"forwards", "stopped"}
                /\ DOMAIN fwd[i].seen = DOMAIN moving_averaged_scores
                /\ DOMAIN moving_averaged_scores = Uids(metagraph)
                /\ \A j \in 1..Len(fwd[i].uids) :
                      fwd[i].uids[j] \in Uids(metagraph))
    /\ [][/\ InFlight =>
                /\ metagraph' = metagraph
                /\ DOMAIN moving_averaged_scores' = DOMAIN moving_averaged_scores
          /\ metagraph' # metagraph =>
                /\ pc \in {"checkpoint", "boundary"}
                /\ pc = "boundary" => \A i \in DOMAIN fwd : fwd[i].pc = "done"]_vars

\* the second iteration, after a boundary whose resync left a registry of
\* three: the first forward has scattered its rewards, the second is still
\* in flight with the uid it sampled
C22_Witness ==
    /\ pc = "forwards"
    /\ step = 1
    /\ prev_block > 0
    /\ N(metagraph) = 3
    /\ fwd[1].pc = "done"
    /\ fwd[2].pc = "query"
    /\ fwd[2].uids = <<2>>
    /\ moving_averaged_scores # fwd[2].seen

\* --------------------------------------------------- claims: liveness
\* C23: if the block height keeps increasing without bound, every dispatch
\* returns and no error is raised, then the run loop never reaches a terminal
\* state, the round counter grows without bound (line 339 is executed again
\* and again), and boundary handling occurs infinitely often: at every point
\* of the run, so after each update of the last-committed height, an
\* iteration is still to come that handles a boundary up to its height update
\* and goes on to line 339.
C23_LoopLives ==
    [](err = "") => []<>(pc = "end_iteration" /\ iter.height_updates = 1)

\* a boundary entered after the round counter and the commit counter have
\* reached their last counted values: rounds and boundaries go on
C23_Witness ==
    /\ pc = "boundary"
    /\ err = ""
    /\ step = MaxStep - 1
    /\ commits = MaxStep - 1
    /\ iter.height_updates = 0
    /\ block - prev_block = config.epoch_length + 1

====
